---- MODULE Spec2Model ----
(***************************************************************************)
(* Model of libsocks (src/socks.c): an LD_PRELOAD shim whose connect()     *)
(* redirects eligible IPv4/TCP connection attempts through a SOCKS4 proxy. *)
(*                                                                         *)
(* One thread runs _init() and then any number of connect() calls, one at  *)
(* a time.  Every system call made by connect() is one step of the model;  *)
(* what the kernel and the proxy answer is chosen nondeterministically.    *)
(* Memory is modelled as bytes: 16- and 32-bit fields are loaded and       *)
(* stored with the byte order of the host, which is fixed at start-up.     *)
(***************************************************************************)
EXTENDS Integers, Sequences, FiniteSets

(* ---------------------------------------------------------------- bounds *)
\* longest candidate list getaddrinfo() hands back
MaxServers == 2

(* ------------------------------------------------- constants of the code *)
AF_INET == 2
AF_INET6 == 10
SOCK_STREAM == 1
SOCK_DGRAM == 2
SizeofSockaddr == 16
SizeofOpt == 4
SizeofRequest == 9
SizeofResponse == 8
SOCKS4_VERSION == 4
SOCKS4_CONNECT == 1
SOCKS4_USER == 0
SOCKS4_REQUEST_GRANTED == 90
LOOPBACK_NET == 127
O_RDWR == 2
O_NONBLOCK == 2048
ENOENT == 2
EINTR == 4
EAGAIN == 11
EPIPE == 32
ENOTSOCK == 88
ECONNRESET == 104
ENOTCONN == 107
ETIMEDOUT == 110
ECONNREFUSED == 111

(* --------------------------------------------------------- integer tools *)
RECURSIVE BitAnd(_, _)
BitAnd(a, b) ==
    IF a = 0 \/ b = 0 THEN 0
    ELSE (a % 2) * (b % 2) + 2 * BitAnd(a \div 2, b \div 2)

\* a & ~b for non-negative a, b
AndNot(a, b) == a - BitAnd(a, b)

\* A 32-bit unsigned value is held as its two 16-bit halves, hi * 65536 + lo.
U32(hi, lo) == [hi |-> hi, lo |-> lo]

\* the value of a 2-byte field of memory, as the host reads it
LoadU16(m, le) ==
    IF le THEN m[1] + 256 * m[2] ELSE m[2] + 256 * m[1]

\* the 2 bytes the host writes to memory for a 16-bit value
StoreU16(x, le) ==
    IF le THEN << x % 256, (x \div 256) % 256 >>
    ELSE << (x \div 256) % 256, x % 256 >>

\* the value of a 4-byte field of memory, as the host reads it
LoadU32(m, le) ==
    IF le THEN U32(LoadU16(<< m[3], m[4] >>, le), LoadU16(<< m[1], m[2] >>, le))
    ELSE U32(LoadU16(<< m[1], m[2] >>, le), LoadU16(<< m[3], m[4] >>, le))

\* the 4 bytes the host writes to memory for a 32-bit value
StoreU32(x, le) ==
    IF le THEN StoreU16(x.lo, le) \o StoreU16(x.hi, le)
    ELSE StoreU16(x.hi, le) \o StoreU16(x.lo, le)

\* x >> 24 of a 32-bit value
ShiftRight24(x) == x.hi \div 256

\* ntohl(3): network (big-endian) to host order
ntohl(x, le) == IF le THEN LoadU32(StoreU32(x, FALSE), TRUE) ELSE x

\* INADDR_ANY, INADDR_BROADCAST of <netinet/in.h>
INADDR_ANY == U32(0, 0)
INADDR_BROADCAST == U32(65535, 65535)

\* IN_MULTICAST of <netinet/in.h>: ((a) & 0xf0000000) == 0xe0000000
IN_MULTICAST(a) == (a.hi \div 4096) = 14

(* ------------------------------------------------------ inputs of a run *)
\* struct sockaddr_in as the caller lays it out in memory (port and address
\* in network byte order); null marks a NULL pointer
SockAddr(fam, port, addr) ==
    [null |-> FALSE, sa_family |-> fam, sin_port |-> port, sin_addr |-> addr]

NullAddr == [null |-> TRUE, sa_family |-> 0, sin_port |-> <<0, 0>>, sin_addr |-> <<0, 0, 0, 0>>]

TargetIPs ==
    { <<0, 0, 0, 0>>, <<255, 255, 255, 255>>, <<224, 0, 0, 1>>, <<239, 255, 255, 250>>,
      <<127, 0, 0, 1>>, <<10, 0, 0, 225>>, <<1, 0, 0, 127>> }

TargetPorts == { <<31, 144>> }

Families == {AF_INET, AF_INET6}

CallerAddrs ==
    {NullAddr} \cup {SockAddr(f, p, a) : f \in Families, p \in TargetPorts, a \in TargetIPs}

CallerLens == {8, SizeofSockaddr}

NoSocket == "none"
SocketKinds == {"tcp4", "udp4", "tcp6", "file"}

InitialFlags == {O_RDWR, O_RDWR + O_NONBLOCK}

EntryErrnos == {0, ENOENT}

\* errno of a refused transport connection, of a hard send/recv failure
ConnectErrnos == {ECONNREFUSED, ETIMEDOUT}
TransientErrnos == {EINTR, EAGAIN}
HardErrnos == {EPIPE, ECONNRESET}

\* bytes a proxy may put in the status position and in the other fields
StatusBytes == {0, 89, 90, 91, 255}
OtherBytes == {0, 90}

\* the i-th endpoint getaddrinfo() resolved for the proxy (port 1080)
ProxyAddr(i) == SockAddr(AF_INET, <<4, 56>>, <<192, 0, 2, i>>)
ProxyList(n) == [i \in 1..n |-> ProxyAddr(i)]

(* ------------------------------------------------------------ the kernel *)
\* getsockopt(s, SOL_SOCKET, SO_TYPE | SO_DOMAIN): what it returns, the
\* length and value it stores, and the errno it sets on failure
GetSockOpt(kind, name) ==
    IF kind = "file" \/ kind = NoSocket
    THEN [ret |-> -1, optlen |-> SizeofOpt, opt |-> -1, err |-> ENOTSOCK]
    ELSE [ret |-> 0, optlen |-> SizeofOpt, err |-> 0,
          opt |-> IF name = "SO_TYPE"
                  THEN (IF kind = "udp4" THEN SOCK_DGRAM ELSE SOCK_STREAM)
                  ELSE (IF kind = "tcp6" THEN AF_INET6 ELSE AF_INET)]

\* fcntl(s, F_SETFL, arg): the access mode of the open file stays
SetFl(cur, arg) == BitAnd(cur, O_RDWR) + AndNot(arg, O_RDWR)

(* -------------------------------------------------- connect(): the filter *)
\* (a variant without the test of the endpoint list)
PreCheckPass_NoConfigCheck(servers, fd, addr, alen) ==
    \/ fd < 0
    \/ addr.null
    \/ alen < SizeofSockaddr
    \/ addr.sa_family # AF_INET

\* lines 144-153
PreCheckPass(servers, fd, addr, alen) ==
    \/ servers = << >>
    \/ fd < 0
    \/ addr.null
    \/ alen < SizeofSockaddr
    \/ addr.sa_family # AF_INET

\* lines 161-165, on sin_addr.s_addr as loaded from memory
AddrClassPass(a, le) ==
    \/ a = INADDR_ANY
    \/ a = INADDR_BROADCAST
    \/ IN_MULTICAST(a)
    \/ ShiftRight24(ntohl(a, le)) = LOOPBACK_NET

\* lines 172-174 and 180-182
SockOptPass(r, want) ==
    \/ r.ret < 0
    \/ r.optlen # SizeofOpt
    \/ r.opt # want

(* ----------------------------------------- connect(): the tunnel path *)
\* line 190: the flags with non-blocking behaviour disabled
BlockingFlags_Unchanged(f) == f
BlockingFlags(f) == AndNot(f, O_NONBLOCK)

\* (a variant that writes back the flags as modified at line 190)
RestoreArg_StillBlocking(saved) == BlockingFlags(saved)

\* lines 217 and 224: the argument of the restoring fcntl(F_SETFL)
RestoreArg(saved) == saved

\* (a variant that steps over a candidate)
ServersLeft_HeadMoved(list) == Tail(list)

\* lines 192-194: the walk over the candidates uses the local cursor
\* `server`; the list socks_server points to is as it was after a refusal
ServersLeft(list) == list

NextServer_Skip(i) == i + 2

\* line 194: the candidate tried after a refused one
NextServer(i) == i + 1

\* lines 51-55 and 201-203: the request as it lies in memory.  s4_port is
\* assigned from sin_port and s4_addr from ip, both host integers.
BuildMessage(addr, a, le) ==
    << SOCKS4_VERSION, SOCKS4_CONNECT >>
        \o StoreU16(LoadU16(addr.sin_port, le), le)
        \o StoreU32(a, le)
        \o << SOCKS4_USER >>

\* the errno a failing send() or recv() may set
IoErrnos == TransientErrnos \cup HardErrnos

\* (a variant that retries after every failure)
Retried_Always(e) == TRUE

\* lines 108 and 125: a failure with EINTR or EAGAIN lets the loop go on
Retried(e) == e = EINTR \/ e = EAGAIN

\* (a variant that forgets to count the bytes that went through)
Remaining_Kept(n, r) == n

\* lines 112 and 132: len -= r
Remaining(n, r) == n - r

\* (a variant that leaves the loop with one byte to go)
LoopDone_OffByOne(n) == n <= 1

\* lines 105 and 122: the loop ends when while (len > 0) fails
LoopDone(n) == ~(n > 0)

\* (a variant that is content once the status byte has arrived)
RecvResult_StatusSeen(n) == n > SizeofResponse - 2

\* line 137: do_complete_recv() returns len != 0, non-zero meaning failure
RecvResult(n) == n # 0

\* (a variant that leaves the cursor where it was)
Advance_Stuck(cursor, r) == cursor

\* lines 112-113 and 132-133: the cursor after r bytes went through
Advance(cursor, r) == cursor + r

\* recv() stores a chunk at the cursor of the response buffer
WriteAt(buf, cursor, chunk) ==
    SubSeq(buf, 1, cursor) \o chunk
        \o (IF Len(buf) > cursor + Len(chunk)
            THEN SubSeq(buf, cursor + Len(chunk) + 1, Len(buf)) ELSE << >>)

\* (a variant that reads the leading byte of the response as the status)
Granted_FirstByte(resp) == resp[1] = SOCKS4_REQUEST_GRANTED

\* line 213: response.s4_status, the second byte of the packed struct
Granted(resp) == resp[2] = SOCKS4_REQUEST_GRANTED

\* (a variant that goes back to the candidate loop)
HandshakeFailed_Retry == "servers"

\* lines 206, 210 and 214: where a failed negotiation goes
HandshakeFailed == "error"

\* (a variant that reports connection-refused whatever errno holds)
ErrorErrno_AlwaysRefused(cur) == ECONNREFUSED

\* line 222
ErrorErrno(cur) == IF cur # 0 THEN cur ELSE ECONNREFUSED

\* (a variant without the shutdown)
ErrorShutdown_Skipped(shut) == shut

\* line 225: shutdown(s, SHUT_RDWR) happens on the error path
ErrorShutdown(shut) == TRUE

\* lines 108, 125: a send() or recv() that fails with EPIPE or ECONNRESET
\* found the connection reset by the peer; the socket is no longer connected
PeerReset(e) == e \in {EPIPE, ECONNRESET}

\* The peer may reset an accepted connection at any moment, also after a
\* complete response; connect() finds out when a send() or recv() fails, or
\* else at the shutdown() of line 225. Whether the connection is reset by
\* then: known if no candidate accepted or a reset was seen, open otherwise.
ResetSeen(peer, reset) == IF peer > 0 /\ ~reset THEN BOOLEAN ELSE {reset}

\* line 225: shutdown(2) of a socket that is not connected, because no
\* candidate accepted or because the peer reset the connection, fails and
\* sets errno to ENOTCONN; on a connected socket it leaves errno
ShutdownErrno(peer, reset, cur) == IF peer = 0 \/ reset THEN ENOTCONN ELSE cur

\* line 227: errno when the failed call returns
FailErrno_NotRestored(saved, cur) == cur
FailErrno(saved, cur) == saved

\* (a variant that leaves errno as the filter's queries left it)
PassErrno_Unrestored(saved, cur) == cur

\* line 231: errno when the real primitive is entered on the pass path
PassErrno(saved, cur) == saved

\* The bytes a proxy may put at position i of its response, after it has
\* delivered `got`: any status; the null byte and each of the two reserved
\* fields (bytes 3-4 and 5-8) hold one byte value, repeated.
ResponseByte(got, i) ==
    IF i = 2 THEN StatusBytes
    ELSE IF i \in {1, 3, 5} THEN OtherBytes
    ELSE { got[i - 1] }

\* the chunks of r bytes a proxy may deliver after `got`
RECURSIVE Chunks(_, _)
Chunks(got, r) ==
    IF r = 0 THEN { << >> }
    ELSE UNION { { << b >> \o c : c \in Chunks(Append(got, b), r - 1) } :
                 b \in ResponseByte(got, Len(got) + 1) }

(* ----------------------------------------------------------------- state *)
VARIABLES
    littleEndian,   \* byte order of the host
    socks_host,     \* SOCKS_SERVER in the environment: "unset", or whether
                    \* getaddrinfo() resolves it ("resolvable", "unresolvable")
    real_connect,   \* line 72: "NULL" or "libc"
    socks_server,   \* line 68: the candidate list, << >> when NULL
    pc,             \* where the thread is
    errno,          \* the thread's errno
    ret,            \* value returned by the last connect()
    s, in_, len,    \* arguments of connect()
    saved_errno, ip, flags, server, message, response,   \* its locals
    data, dlen,     \* cursor and remaining length of the running loop
    sockKind, sockFl, sockPeer, sockShut,   \* the socket behind s
    sockReset,      \* the peer reset the connection of the socket
    entry,          \* history: arguments, errno and flags at call entry
    connectCalls,   \* history: calls of the real primitive
    sent,           \* history: bytes the transport accepted
    rcvd,           \* history: bytes the proxy delivered
    ioTried,        \* history: which of send, recv were called
    setflCalls,     \* history: number of fcntl(F_SETFL)
    shutdowns,      \* history: number of shutdown(SHUT_RDWR)
    path,           \* history: "pass" or "tunnel"
    outcome,        \* history: how the call ended
    parked          \* a second thread of the process while it is not the
                    \* one running: its errno, its position in connect(),
                    \* its arguments and locals, its own socket, its history

\* what no step of the running thread writes: the host, the environment and
\* the thread that is not running
envVars == << littleEndian, socks_host, parked >>
cfgVars == << real_connect, socks_server >>
argVars == << s, in_, len >>
localVars == << saved_errno, ip, flags, server, message, response, data, dlen >>
sockVars == << sockKind, sockFl, sockPeer, sockShut, sockReset >>
histVars == << entry, connectCalls, sent, rcvd, ioTried, setflCalls, shutdowns, path, outcome >>
vars == << envVars, cfgVars, pc, errno, ret, argVars, localVars, sockVars, histVars >>

NoEntry == [fd |-> -1, addr |-> NullAddr, len |-> 0, errno |-> 0, fl |-> 0]

\* state of the thread and of the socket outside any call
Quiet ==
    /\ ret = 0
    /\ s = -1 /\ in_ = NullAddr /\ len = 0
    /\ saved_errno = 0 /\ ip = INADDR_ANY /\ flags = 0 /\ server = 0
    /\ message = << >> /\ response = << >> /\ data = 0 /\ dlen = 0
    /\ sockKind = NoSocket /\ sockFl = 0 /\ sockPeer = 0 /\ sockShut = FALSE
    /\ sockReset = FALSE
    /\ entry = NoEntry /\ connectCalls = << >> /\ sent = << >> /\ rcvd = << >>
    /\ ioTried = {} /\ setflCalls = 0 /\ shutdowns = 0
    /\ path = "none" /\ outcome = "none"

\* the running thread: errno (thread-local), where it is in connect(), the
\* automatic variables of lines 140-212 and the socket it was called on
Me ==
    [pc |-> pc, errno |-> errno, ret |-> ret, s |-> s, in_ |-> in_, len |-> len,
     saved_errno |-> saved_errno, ip |-> ip, flags |-> flags, server |-> server,
     message |-> message, response |-> response, data |-> data, dlen |-> dlen,
     sockKind |-> sockKind, sockFl |-> sockFl, sockPeer |-> sockPeer,
     sockShut |-> sockShut, sockReset |-> sockReset,
     entry |-> entry, connectCalls |-> connectCalls, sent |-> sent, rcvd |-> rcvd,
     ioTried |-> ioTried, setflCalls |-> setflCalls, shutdowns |-> shutdowns,
     path |-> path, outcome |-> outcome]

\* a thread that has made no call
ThreadIdle ==
    [pc |-> "idle", errno |-> 0, ret |-> 0, s |-> -1, in_ |-> NullAddr, len |-> 0,
     saved_errno |-> 0, ip |-> INADDR_ANY, flags |-> 0, server |-> 0,
     message |-> << >>, response |-> << >>, data |-> 0, dlen |-> 0,
     sockKind |-> NoSocket, sockFl |-> 0, sockPeer |-> 0, sockShut |-> FALSE,
     sockReset |-> FALSE,
     entry |-> NoEntry, connectCalls |-> << >>, sent |-> << >>, rcvd |-> << >>,
     ioTried |-> {}, setflCalls |-> 0, shutdowns |-> 0,
     path |-> "none", outcome |-> "none"]

Init ==
    /\ parked = ThreadIdle
    /\ littleEndian \in BOOLEAN
    /\ socks_host \in {"unset", "unresolvable", "resolvable"}
    /\ real_connect = "NULL"
    /\ socks_server = << >>
    /\ pc = "load"
    /\ errno = 0
    /\ Quiet

(* -------------------------------------------------- _init(), lines 74-101 *)
\* dlsym() finds no connect: abort()
InitAbort ==
    /\ pc = "load"
    /\ pc' = "aborted"
    /\ UNCHANGED << envVars, cfgVars, errno, ret, argVars, localVars, sockVars, histVars >>

\* SOCKS_SERVER is not set: socks_server stays NULL
InitNoHost ==
    /\ pc = "load"
    /\ socks_host = "unset"
    /\ real_connect' = "libc"
    /\ pc' = "idle"
    /\ UNCHANGED << envVars, socks_server, errno, ret, argVars, localVars,
                    sockVars, histVars >>

\* the number of endpoints getaddrinfo() may store for the host: none when
\* it fails, and then the list stays NULL
Resolved(host) == IF host = "resolvable" THEN 1..MaxServers ELSE {0}

\* SOCKS_SERVER is set: getaddrinfo() fails or stores a list of n endpoints
InitResolve ==
    /\ pc = "load"
    /\ socks_host # "unset"
    /\ real_connect' = "libc"
    /\ \E n \in Resolved(socks_host) : socks_server' = ProxyList(n)
    /\ pc' = "idle"
    /\ UNCHANGED << envVars, errno, ret, argVars, localVars, sockVars, histVars >>

(* ---------------------------------------------- connect(), lines 140-233 *)
\* the call is entered: lines 142-166
Enter ==
    /\ pc = "idle"
    /\ \E fd \in {-1, 3}, addr \in CallerAddrs, alen \in CallerLens, e \in EntryErrnos,
          kind \in SocketKinds, fl \in InitialFlags :
        /\ fd < 0 => (kind = "file" /\ fl = O_RDWR)
        /\ s' = fd /\ in_' = addr /\ len' = alen
        /\ errno' = e
        /\ saved_errno' = e
        /\ sockKind' = (IF fd < 0 THEN NoSocket ELSE kind)
        /\ sockFl' = (IF fd < 0 THEN 0 ELSE fl)
        /\ entry' = [fd |-> fd, addr |-> addr, len |-> alen, errno |-> e,
                     fl |-> IF fd < 0 THEN 0 ELSE fl]
        /\ IF PreCheckPass(socks_server, fd, addr, alen)
           THEN /\ ip' = INADDR_ANY
                /\ pc' = "pass"
           ELSE /\ ip' = LoadU32(addr.sin_addr, littleEndian)
                /\ pc' = IF AddrClassPass(ip', littleEndian) THEN "pass" ELSE "so_type"
    /\ UNCHANGED << envVars, cfgVars, ret, flags, server, message, response, data, dlen,
                    sockPeer, sockShut, sockReset, connectCalls, sent, rcvd, ioTried,
                    setflCalls, shutdowns, path, outcome >>

\* lines 169-175: getsockopt(SO_TYPE)
SoType ==
    /\ pc = "so_type"
    /\ LET r == GetSockOpt(sockKind, "SO_TYPE") IN
        /\ errno' = (IF r.ret < 0 THEN r.err ELSE errno)
        /\ pc' = IF SockOptPass(r, SOCK_STREAM) THEN "pass" ELSE "so_domain"
    /\ UNCHANGED << envVars, cfgVars, ret, argVars, localVars, sockVars, histVars >>

\* lines 177-183: getsockopt(SO_DOMAIN)
SoDomain ==
    /\ pc = "so_domain"
    /\ LET r == GetSockOpt(sockKind, "SO_DOMAIN") IN
        /\ errno' = (IF r.ret < 0 THEN r.err ELSE errno)
        /\ pc' = IF SockOptPass(r, AF_INET) THEN "pass" ELSE "setup"
    /\ UNCHANGED << envVars, cfgVars, ret, argVars, localVars, sockVars, histVars >>

\* lines 187-192: save the flags, force blocking mode, start at the head
Setup ==
    /\ pc = "setup"
    /\ flags' = sockFl
    /\ sockFl' = SetFl(sockFl, BlockingFlags(flags'))
    /\ setflCalls' = setflCalls + 1
    /\ server' = 1
    /\ path' = "tunnel"
    /\ pc' = "servers"
    /\ UNCHANGED << envVars, cfgVars, errno, ret, argVars, saved_errno, ip, message, response,
                    data, dlen, sockKind, sockPeer, sockShut, sockReset, entry, connectCalls,
                    sent, rcvd, ioTried, shutdowns, outcome >>

\* the record of one call of the real primitive
\* (arguments, errno and socket flags when it is entered; out = 0 when it
\* succeeds, else the errno it sets)
RealCall(fd, addr, alen, e, fl, out) ==
    [fd |-> fd, addr |-> addr, len |-> alen, errno |-> e, fl |-> fl, out |-> out]

\* lines 193-194: real_connect() to the current candidate fails with e
ServerRefuses ==
    /\ pc = "servers"
    /\ server \in 1..Len(socks_server)
    /\ \E e \in ConnectErrnos :
        /\ errno' = e
        /\ connectCalls' = Append(connectCalls,
                RealCall(s, socks_server[server], SizeofSockaddr, errno, sockFl, e))
    /\ server' = NextServer(server)
    /\ IF server' \in 1..Len(socks_server)
       THEN /\ pc' = "servers"
            /\ outcome' = outcome
       ELSE /\ pc' = "error"          \* lines 196-198
            /\ outcome' = "exhausted"
    /\ socks_server' = ServersLeft(socks_server)
    /\ UNCHANGED << envVars, real_connect, ret, argVars, saved_errno, ip, flags, message,
                    response, data, dlen, sockVars, entry, sent, rcvd, ioTried,
                    setflCalls, shutdowns, path >>

\* line 193 succeeds; lines 201-205 build the request and enter the send loop
ServerAccepts ==
    /\ pc = "servers"
    /\ server \in 1..Len(socks_server)
    /\ connectCalls' = Append(connectCalls,
            RealCall(s, socks_server[server], SizeofSockaddr, errno, sockFl, 0))
    /\ sockPeer' = server
    /\ message' = BuildMessage(in_, ip, littleEndian)
    /\ data' = 0
    /\ dlen' = SizeofRequest
    /\ pc' = "send"
    /\ UNCHANGED << envVars, cfgVars, errno, ret, argVars, saved_errno, ip, flags, server,
                    response, sockKind, sockFl, sockShut, sockReset, entry, sent, rcvd, ioTried,
                    setflCalls, shutdowns, path, outcome >>

(* do_complete_send(), lines 103-118: one iteration of the loop per step *)
\* send() takes r of the remaining bytes
SendPartial ==
    /\ pc = "send"
    /\ \E r \in 1..dlen :
        /\ sent' = sent \o SubSeq(message, data + 1, data + r)
        /\ IF ~LoopDone(Remaining(dlen, r))
           THEN /\ dlen' = Remaining(dlen, r)
                /\ data' = Advance(data, r)
                /\ pc' = "send"
           ELSE \* returns 0; line 209 enters the receive loop
                /\ dlen' = SizeofResponse
                /\ data' = 0
                /\ pc' = "recv"
    /\ ioTried' = ioTried \cup {"send"}
    /\ UNCHANGED << envVars, cfgVars, errno, ret, argVars, saved_errno, ip, flags, server,
                    message, response, sockVars, entry, connectCalls, rcvd,
                    setflCalls, shutdowns, path, outcome >>

\* send() fails with EINTR or EAGAIN: the loop goes round again
SendTransient ==
    /\ pc = "send"
    /\ \E e \in IoErrnos : Retried(e) /\ errno' = e
    /\ ioTried' = ioTried \cup {"send"}
    /\ UNCHANGED << envVars, cfgVars, pc, ret, argVars, localVars, sockVars, entry,
                    connectCalls, sent, rcvd, setflCalls, shutdowns, path, outcome >>

\* send() fails with another error: return -1, line 206 goes to error
SendHard ==
    /\ pc = "send"
    /\ \E e \in IoErrnos :
        /\ ~Retried(e)
        /\ errno' = e
        /\ sockReset' = PeerReset(e)
    /\ ioTried' = ioTried \cup {"send"}
    /\ outcome' = "send"
    /\ pc' = HandshakeFailed
    /\ UNCHANGED << envVars, cfgVars, ret, argVars, localVars, sockKind, sockFl,
                    sockPeer, sockShut, entry, connectCalls, sent, rcvd,
                    setflCalls, shutdowns, path >>

(* do_complete_recv(), lines 120-138: one iteration of the loop per step *)
\* recv() delivers a chunk of the remaining bytes
RecvData ==
    /\ pc = "recv"
    /\ \E r \in 1..dlen : \E chunk \in Chunks(rcvd, r) :
        /\ rcvd' = rcvd \o chunk
        /\ response' = WriteAt(response, data, chunk)
        /\ dlen' = Remaining(dlen, r)
        /\ data' = Advance(data, r)
        /\ pc' = IF ~LoopDone(dlen') THEN "recv"
                 ELSE IF RecvResult(dlen') THEN HandshakeFailed   \* line 210
                 ELSE "status"
    /\ ioTried' = ioTried \cup {"recv"}
    /\ UNCHANGED << envVars, cfgVars, errno, ret, argVars, saved_errno, ip, flags, server,
                    message, sockVars, entry, connectCalls, sent, setflCalls,
                    shutdowns, path, outcome >>

\* recv() fails with EINTR or EAGAIN: the loop goes round again
RecvTransient ==
    /\ pc = "recv"
    /\ \E e \in IoErrnos : Retried(e) /\ errno' = e
    /\ ioTried' = ioTried \cup {"recv"}
    /\ UNCHANGED << envVars, cfgVars, pc, ret, argVars, localVars, sockVars, entry,
                    connectCalls, sent, rcvd, setflCalls, shutdowns, path, outcome >>

\* recv() fails with another error: return -1, line 210 goes to error
RecvHard ==
    /\ pc = "recv"
    /\ \E e \in IoErrnos :
        /\ ~Retried(e)
        /\ errno' = e
        /\ sockReset' = PeerReset(e)
    /\ ioTried' = ioTried \cup {"recv"}
    /\ outcome' = "recv"
    /\ pc' = HandshakeFailed
    /\ UNCHANGED << envVars, cfgVars, ret, argVars, localVars, sockKind, sockFl,
                    sockPeer, sockShut, entry, connectCalls, sent, rcvd,
                    setflCalls, shutdowns, path >>

\* recv() returns 0, the peer closed: break, return len != 0, line 210
RecvClosed ==
    /\ pc = "recv"
    /\ ioTried' = ioTried \cup {"recv"}
    /\ outcome' = "closed"
    /\ pc' = IF RecvResult(dlen) THEN HandshakeFailed ELSE "status"
    /\ UNCHANGED << envVars, cfgVars, errno, ret, argVars, localVars, sockVars, entry,
                    connectCalls, sent, rcvd, setflCalls, shutdowns, path >>

\* lines 213-218: the status is the grant code, restore the flags, return 0
StatusGranted ==
    /\ pc = "status"
    /\ Granted(response)
    /\ sockFl' = SetFl(sockFl, RestoreArg(flags))
    /\ setflCalls' = setflCalls + 1
    /\ ret' = 0
    /\ outcome' = "ok"
    /\ pc' = "returned"
    /\ UNCHANGED << envVars, cfgVars, errno, argVars, localVars, sockKind, sockPeer, sockShut, sockReset,
                    entry, connectCalls, sent, rcvd, ioTried, shutdowns, path >>

\* lines 213-214: any other status
StatusDenied ==
    /\ pc = "status"
    /\ ~Granted(response)
    /\ outcome' = "denied"
    /\ pc' = HandshakeFailed
    /\ UNCHANGED << envVars, cfgVars, errno, ret, argVars, localVars, sockVars, entry,
                    connectCalls, sent, rcvd, ioTried, setflCalls, shutdowns, path >>

\* lines 220-228
Error ==
    /\ pc = "error"
    /\ saved_errno' = ErrorErrno(errno)
    /\ sockFl' = SetFl(sockFl, RestoreArg(flags))
    /\ setflCalls' = setflCalls + 1
    /\ sockShut' = ErrorShutdown(sockShut)
    /\ shutdowns' = (IF sockShut' /\ ~sockShut THEN shutdowns + 1 ELSE shutdowns)
    /\ \E r \in ResetSeen(sockPeer, sockReset) :
        /\ sockReset' = r
        /\ errno' = FailErrno(saved_errno', ShutdownErrno(sockPeer, r, errno))
    /\ ret' = -1
    /\ pc' = "returned"
    /\ UNCHANGED << envVars, cfgVars, argVars, ip, flags, server, message, response, data, dlen,
                    sockKind, sockPeer, entry, connectCalls, sent, rcvd,
                    ioTried, path, outcome >>

\* lines 230-232: o = 0 when the real primitive succeeds, else the errno it sets
Pass ==
    /\ pc = "pass"
    /\ path' = "pass"
    /\ LET e == PassErrno(saved_errno, errno) IN
       \E o \in {0} \cup ConnectErrnos :
        /\ connectCalls' = Append(connectCalls, RealCall(s, in_, len, e, sockFl, o))
        /\ ret' = (IF o = 0 THEN 0 ELSE -1)
        /\ errno' = (IF o = 0 THEN e ELSE o)
        /\ sockPeer' = (IF o = 0 THEN -1 ELSE 0)
        /\ outcome' = (IF o = 0 THEN "direct" ELSE "direct_failed")
    /\ pc' = "returned"
    /\ UNCHANGED << envVars, cfgVars, argVars, localVars, sockKind, sockFl, sockShut, sockReset, entry,
                    sent, rcvd, ioTried, setflCalls, shutdowns >>

\* the caller goes on; the next call uses a fresh socket
Resume ==
    /\ pc = "returned"
    /\ pc' = "idle"
    /\ errno' = 0
    /\ ret' = 0
    /\ s' = -1 /\ in_' = NullAddr /\ len' = 0
    /\ saved_errno' = 0 /\ ip' = INADDR_ANY /\ flags' = 0 /\ server' = 0
    /\ message' = << >> /\ response' = << >> /\ data' = 0 /\ dlen' = 0
    /\ sockKind' = NoSocket /\ sockFl' = 0 /\ sockPeer' = 0 /\ sockShut' = FALSE
    /\ sockReset' = FALSE
    /\ entry' = NoEntry /\ connectCalls' = << >> /\ sent' = << >> /\ rcvd' = << >>
    /\ ioTried' = {} /\ setflCalls' = 0 /\ shutdowns' = 0
    /\ path' = "none" /\ outcome' = "none"
    /\ UNCHANGED << envVars, cfgVars >>

Next ==
    \/ InitAbort \/ InitNoHost \/ InitResolve
    \/ Enter \/ SoType \/ SoDomain \/ Setup
    \/ ServerRefuses \/ ServerAccepts
    \/ SendPartial \/ SendTransient \/ SendHard
    \/ RecvData \/ RecvTransient \/ RecvHard \/ RecvClosed
    \/ StatusGranted \/ StatusDenied
    \/ Error \/ Pass \/ Resume

Spec == Init /\ [][Next]_vars

(* ------------------------------------------- two threads of the process *)
\* The scheduler takes the running thread off the processor and puts the
\* other one on. What goes with a thread is what the code keeps per thread:
\* errno, the arguments and automatic variables of connect() and the
\* position in it, and the socket the thread called connect() on (the two
\* threads use distinct sockets). socks_server and real_connect (lines 68,
\* 72) are the statics of the library and stay where they are.
Switch ==
    /\ pc \notin {"load", "aborted"}
    /\ parked' = Me
    /\ pc' = parked.pc /\ errno' = parked.errno /\ ret' = parked.ret
    /\ s' = parked.s /\ in_' = parked.in_ /\ len' = parked.len
    /\ saved_errno' = parked.saved_errno /\ ip' = parked.ip
    /\ flags' = parked.flags /\ server' = parked.server
    /\ message' = parked.message /\ response' = parked.response
    /\ data' = parked.data /\ dlen' = parked.dlen
    /\ sockKind' = parked.sockKind /\ sockFl' = parked.sockFl
    /\ sockPeer' = parked.sockPeer /\ sockShut' = parked.sockShut
    /\ sockReset' = parked.sockReset
    /\ entry' = parked.entry /\ connectCalls' = parked.connectCalls
    /\ sent' = parked.sent /\ rcvd' = parked.rcvd /\ ioTried' = parked.ioTried
    /\ setflCalls' = parked.setflCalls /\ shutdowns' = parked.shutdowns
    /\ path' = parked.path /\ outcome' = parked.outcome
    /\ UNCHANGED << littleEndian, socks_host, cfgVars >>

\* The calls explored with two threads: a TCP/IPv4 socket, blocking or not,
\* entered with errno 0; a target that is tunnelled or a loopback target
\* that is passed through; a candidate refuses with ECONNREFUSED, a send
\* or receive fails with EINTR or EPIPE; the request goes out in one piece or in two, the
\* response comes in one piece or in two, and its status is 0x5A or 0x5B.
MTTargets == {<<1, 0, 0, 127>>, <<127, 0, 0, 1>>}
MTErrnos == {0, ECONNREFUSED, EINTR, EPIPE}
MTSendLeft == {SizeofRequest, SizeofRequest - 4}
MTRecvLeft == {SizeofResponse, SizeofResponse - 2}
MTStatus == {SOCKS4_REQUEST_GRANTED, SOCKS4_REQUEST_GRANTED + 1}

InMTScope ==
    /\ entry # NoEntry =>
            /\ entry.fd = 3 /\ ~entry.addr.null
            /\ entry.addr.sa_family = AF_INET
            /\ entry.addr.sin_addr \in MTTargets
            /\ entry.len = SizeofSockaddr
            /\ entry.errno = 0
            /\ sockKind = "tcp4"
    /\ errno \in MTErrnos
    /\ pc = "send" => dlen \in MTSendLeft
    /\ pc = "recv" => dlen \in MTRecvLeft
    /\ \A i \in 1..Len(rcvd) :
            IF i = 2 THEN rcvd[i] \in MTStatus ELSE rcvd[i] = 0

\* a step of the running thread, or a switch to the other thread
NextMT ==
    \/ Switch
    \/ InitAbort /\ InMTScope'
    \/ InitNoHost /\ InMTScope'
    \/ InitResolve /\ InMTScope'
    \/ Enter /\ InMTScope'
    \/ SoType /\ InMTScope'
    \/ SoDomain /\ InMTScope'
    \/ Setup /\ InMTScope'
    \/ ServerRefuses /\ InMTScope'
    \/ ServerAccepts /\ InMTScope'
    \/ SendPartial /\ InMTScope'
    \/ SendTransient /\ InMTScope'
    \/ SendHard /\ InMTScope'
    \/ RecvData /\ InMTScope'
    \/ RecvTransient /\ InMTScope'
    \/ RecvHard /\ InMTScope'
    \/ RecvClosed /\ InMTScope'
    \/ StatusGranted /\ InMTScope'
    \/ StatusDenied /\ InMTScope'
    \/ Error /\ InMTScope'
    \/ Pass /\ InMTScope'
    \/ Resume /\ InMTScope'

SpecMT == Init /\ [][NextMT]_vars

(* ============================================================ properties *)
Returned == pc = "returned"

\* what the call would do if the caller reached the real primitive directly:
\* the primitive's own return value and the errno it leaves
DirectRet(out) == IF out = 0 THEN 0 ELSE -1
DirectErrno(out, before) == IF out = 0 THEN before ELSE out

\* the address classes the filter is to exclude, on the octets of the target
\* as the caller wrote them (first octet first)
ExcludedTarget(a) ==
    \/ a = <<0, 0, 0, 0>>
    \/ a = <<255, 255, 255, 255>>
    \/ a[1] \in 224..239
    \/ a[1] = 127

\* the six eligibility conditions, on the inputs of the call
Eligible(e, kind) ==
    /\ socks_server # << >>
    /\ e.fd >= 0 /\ ~e.addr.null /\ e.len >= SizeofSockaddr
    /\ e.addr.sa_family = AF_INET
    /\ ~ExcludedTarget(e.addr.sin_addr)
    /\ kind = "tcp4"

\* C1: a call the filter sends to passthrough invokes the real primitive
\* exactly once, with the caller's descriptor, address and length and with
\* errno as it was at call entry, returns the primitive's return value and
\* errno, and does no flag change, send, receive or shutdown on the socket.
C1_PassthroughIsDirectCall ==
    (Returned /\ path = "pass") =>
        /\ Len(connectCalls) = 1
        /\ connectCalls[1].fd = entry.fd
        /\ connectCalls[1].addr = entry.addr
        /\ connectCalls[1].len = entry.len
        /\ connectCalls[1].errno = entry.errno
        /\ ret = DirectRet(connectCalls[1].out)
        /\ errno = DirectErrno(connectCalls[1].out, entry.errno)
        /\ sockFl = entry.fl /\ setflCalls = 0
        /\ ioTried = {} /\ sent = << >> /\ rcvd = << >>
        /\ shutdowns = 0 /\ ~sockShut

\* a passthrough whose SO_TYPE query failed and set errno, entered with a
\* non-zero errno, where the real primitive succeeded
C1_Witness ==
    /\ Returned /\ path = "pass"
    /\ socks_server # << >>
    /\ sockKind = "file" /\ entry.addr.sin_addr = <<1, 0, 0, 127>>
    /\ entry.addr.sa_family = AF_INET /\ entry.len = SizeofSockaddr
    /\ entry.errno = ENOENT
    /\ ret = 0 /\ errno = ENOENT

\* C2: a call whose target is the unspecified or the broadcast address, a
\* multicast address (first octet 224..239) or a loopback address (first
\* octet 127) is never tunnelled: the real primitive is never called with a
\* proxy candidate and no handshake byte is sent.
C2_ExcludedClassNeverTunnelled ==
    (~entry.addr.null /\ ExcludedTarget(entry.addr.sin_addr)) =>
        /\ path # "tunnel"
        /\ \A i \in 1..Len(connectCalls) : connectCalls[i].addr = entry.addr
        /\ sent = << >>

\* C3: a call that meets the six eligibility conditions takes the tunnel
\* path: the real primitive is called with proxy candidates only, never with
\* the caller's target address.
C3_EligibleIsTunnelled ==
    (Returned /\ Eligible(entry, sockKind)) =>
        /\ path = "tunnel"
        /\ \A i \in 1..Len(connectCalls) : connectCalls[i].addr # entry.addr

\* C4: when a call returns, on whatever path, the flags of the socket are
\* the flags it had when the call was entered.
C4_FlagsRestored ==
    Returned => sockFl = entry.fl

\* a tunnelled call on a non-blocking socket that failed after the proxy
\* accepted the transport connection
C4_Witness ==
    /\ Returned /\ path = "tunnel"
    /\ BitAnd(entry.fl, O_NONBLOCK) # 0
    /\ outcome = "denied"
    /\ setflCalls = 2

\* the SOCKS4 CONNECT request for a target, as the protocol lays it out:
\* version, command, port and address big-endian, empty user id
WireRequest(addr) ==
    << 4, 1 >> \o addr.sin_port \o addr.sin_addr \o << 0 >>

FailureOutcomes == {"exhausted", "send", "recv", "closed", "denied"}

\* C5: a tunnelled call returns success exactly when a candidate accepted
\* the transport connection, the 9 request bytes were sent, 8 response bytes
\* were received and the second of them is 0x5A; no other response byte
\* matters.
C5_SuccessIffGranted ==
    (Returned /\ path = "tunnel") =>
        ( ret = 0 <=>
            /\ sockPeer > 0
            /\ sent = WireRequest(entry.addr)
            /\ Len(rcvd) = SizeofResponse
            /\ rcvd[2] = 90 )

\* a granted call whose response has non-zero bytes around the status
C5_Witness ==
    /\ Returned /\ path = "tunnel" /\ ret = 0
    /\ rcvd[1] = 90 /\ rcvd[2] = 90 /\ rcvd[3] = 0 /\ rcvd[5] = 90

\* C6: a tunnelled call that fails shuts the socket down exactly once and
\* returns -1; one that succeeds never shuts it down.
C6_ShutdownIffFailure ==
    (Returned /\ path = "tunnel") =>
        /\ ret \in {0, -1}
        /\ (outcome \in FailureOutcomes) <=> (ret = -1)
        /\ (outcome = "ok") <=> (ret = 0)
        /\ ret = -1 => (shutdowns = 1 /\ sockShut)
        /\ ret = 0 => (shutdowns = 0 /\ ~sockShut)

\* a call that failed because every candidate refused
C6_Witness ==
    /\ Returned /\ path = "tunnel" /\ outcome = "exhausted"
    /\ ret = -1 /\ shutdowns = 1 /\ sockPeer = 0

\* C7: the errno of a failed tunnelled call is the one set by the operation
\* that failed (the last refused connect, the send, the receive), and
\* connection-refused after a premature close or a denial, where no
\* operation failed.
C7_FailureErrnoDeterministic ==
    (Returned /\ path = "tunnel" /\ ret = -1) =>
        /\ outcome \in {"closed", "denied"} => errno = ECONNREFUSED
        /\ outcome \in {"send", "recv"} => errno \in HardErrnos
        /\ outcome = "exhausted" => errno = connectCalls[Len(connectCalls)].out

IsPrefix(p, q) == Len(p) <= Len(q) /\ p = SubSeq(q, 1, Len(p))

\* C8: the bytes the transport accepted are at every moment a prefix of the
\* 9-byte request for the caller's target, and all of it once the send loop
\* is over.
C8_RequestBytesExact ==
    path = "tunnel" =>
        /\ IsPrefix(sent, WireRequest(entry.addr))
        /\ pc = "send" => Len(sent) + dlen = SizeofRequest
        /\ pc \in {"recv", "status"} => sent = WireRequest(entry.addr)
        /\ (Returned /\ outcome \in {"ok", "denied", "closed", "recv"}) =>
                sent = WireRequest(entry.addr)
        /\ (Returned /\ outcome = "exhausted") => sent = << >>

\* the request went out in several sends, one of them retried after a
\* transient failure
C8_Witness ==
    /\ pc = "recv" /\ rcvd = << >> /\ ioTried = {"send"}
    /\ errno \in TransientErrnos
    /\ sent = WireRequest(entry.addr)
    /\ entry.addr.sin_addr = <<1, 0, 0, 127>>

\* C9: the candidates are tried in list order, each at most once, on the
\* caller's descriptor; every attempt but the last was refused, the handshake
\* runs over the last candidate tried, and the list counts as exhausted only
\* when every candidate was tried.
C9_CandidatesInOrder ==
    path = "tunnel" =>
        /\ Len(connectCalls) <= Len(socks_server)
        /\ \A i \in 1..Len(connectCalls) :
            /\ connectCalls[i].addr = socks_server[i]
            /\ connectCalls[i].fd = entry.fd
            /\ i < Len(connectCalls) => connectCalls[i].out # 0
        /\ sockPeer > 0 =>
            /\ sockPeer = Len(connectCalls)
            /\ connectCalls[sockPeer].out = 0
        /\ sockPeer = 0 =>
            \A i \in 1..Len(connectCalls) : connectCalls[i].out # 0
        /\ outcome = "exhausted" => Len(connectCalls) = Len(socks_server)
        /\ pc = "servers" => server = Len(connectCalls) + 1

\* all candidates but the last refused, the handshake runs over the last
C9_Witness ==
    /\ pc = "send" /\ Len(socks_server) >= 2
    /\ sockPeer = Len(socks_server)
    /\ Len(connectCalls) = Len(socks_server)

\* C10: once a candidate has accepted the transport connection, the call
\* makes no further call of the real primitive.
C10_NoConnectAfterNegotiationStarts ==
    [][ (path = "tunnel" /\ sockPeer > 0 /\ ~Returned) =>
            /\ connectCalls' = connectCalls
            /\ pc' \in {"send", "recv", "status", "error", "returned"} ]_vars

\* a denied call that returned with an untried candidate left
C10_Witness ==
    /\ Returned /\ outcome = "denied" /\ ret = -1
    /\ sockPeer = 1 /\ Len(connectCalls) = 1 /\ Len(socks_server) = 2

\* C11 as stated: when every candidate refused, the call fails with
\* connection-refused, whatever errno the refused attempts set.
C11_ExhaustedIsConnRefused ==
    (Returned /\ outcome = "exhausted") => (ret = -1 /\ errno = ECONNREFUSED)

\* C11, amended: when every candidate refused, the call fails with the errno
\* the last refused attempt set, which is never zero.
C11_ExhaustedReportsLastErrno ==
    (Returned /\ outcome = "exhausted") =>
        /\ ret = -1
        /\ Len(connectCalls) = Len(socks_server)
        /\ errno = connectCalls[Len(connectCalls)].out
        /\ errno # 0

\* two candidates refused, the first with connection-refused and the last
\* with timed-out, and the call reports timed-out
C11_Witness ==
    /\ Returned /\ outcome = "exhausted" /\ ret = -1
    /\ Len(connectCalls) = 2
    /\ connectCalls[1].out = ECONNREFUSED
    /\ connectCalls[2].out = ETIMEDOUT
    /\ errno = ETIMEDOUT

\* C12: when the peer closes before the 8 response bytes are in, after any
\* number of them and in any split of reads, the call fails and the socket
\* is left shut down, whatever the bytes received so far hold; a call never
\* succeeds on an incomplete response.
C12_PrematureCloseFails ==
    /\ (Returned /\ path = "tunnel" /\ outcome = "closed") =>
            /\ Len(rcvd) < SizeofResponse
            /\ ret = -1 /\ sockShut /\ shutdowns = 1
    /\ (Returned /\ path = "tunnel" /\ Len(rcvd) < SizeofResponse) =>
            (ret = -1 /\ sockShut)

\* the peer closed after 3 bytes, the second of them the grant code
C12_Witness ==
    /\ Returned /\ outcome = "closed"
    /\ Len(rcvd) = 3 /\ rcvd[2] = 90
    /\ ret = -1 /\ sockShut

\* C13: when SOCKS_SERVER is not set, or does not resolve, the endpoint
\* list is empty from initialization on, and every call, whatever its
\* arguments, is a passthrough that returns what the real primitive returns.
C13_NoProxyAlwaysPassthrough ==
    (pc \notin {"load", "aborted"} /\ socks_host \in {"unset", "unresolvable"}) =>
        /\ socks_server = << >>
        /\ path # "tunnel"
        /\ pc \in {"idle", "pass", "returned"}
        /\ Returned =>
            /\ path = "pass"
            /\ Len(connectCalls) = 1
            /\ connectCalls[1].fd = entry.fd
            /\ connectCalls[1].addr = entry.addr
            /\ connectCalls[1].len = entry.len
            /\ ret = DirectRet(connectCalls[1].out)
            /\ errno = DirectErrno(connectCalls[1].out, entry.errno)

\* a call on an invalid descriptor with a null address, made when the
\* host did not resolve
C13_Witness ==
    /\ Returned /\ socks_host = "unresolvable"
    /\ entry.fd < 0 /\ entry.addr.null
    /\ path = "pass" /\ ret = -1

\* C14: a tunnelled call that succeeds returns 0 with the socket not shut
\* down, its flags as at entry, and errno as it was at call entry, also
\* when a candidate was refused or a send or receive was retried on the way.
C14_SuccessLeavesErrno ==
    (Returned /\ path = "tunnel" /\ outcome = "ok") =>
        /\ ret = 0
        /\ ~sockShut /\ shutdowns = 0
        /\ sockFl = entry.fl
        /\ errno = entry.errno

\* the thread is scheduled, and every system call it makes returns
SpecFair == Spec /\ WF_vars(Next)

InLoop == pc \in {"send", "recv"}

\* an iteration of a loop that ends with the loop still running and no byte
\* gone through
IdleIteration == InLoop /\ pc' = pc /\ ~(dlen' < dlen)

\* C16: an iteration of the complete-write or complete-read loop ends the
\* loop, or lowers the number of remaining bytes (which stays positive while
\* the loop runs, so this happens at most 9 times), or follows a failure
\* with EINTR or EAGAIN; a failure with another errno ends the loop with an
\* error, no byte sent or received after it.
C16_IterationsProgress ==
    /\ [](InLoop => dlen \in 1..SizeofRequest)
    /\ [][ InLoop =>
            /\ IdleIteration => (dlen' = dlen /\ errno' \in {EINTR, EAGAIN})
            /\ (pc' = pc /\ dlen' < dlen) => errno' = errno
            /\ errno' \in HardErrnos =>
                    (pc' = "error" /\ sent' = sent /\ rcvd' = rcvd) ]_vars

\* C16, the consequence, under SpecFair: if from some point on no send or
\* receive fails with EINTR or EAGAIN, a running loop comes to its end.
C16_LoopsTerminate ==
    (<>[][~IdleIteration]_vars) => (InLoop ~> ~InLoop)

\* a receive loop that went round after a transient failure with bytes of
\* the response already in
C16_Witness ==
    /\ pc = "recv" /\ errno \in TransientErrnos
    /\ dlen < SizeofResponse /\ dlen > 0
    /\ Len(rcvd) = SizeofResponse - dlen

\* the steps that operate on the socket for the tunnel: a connection attempt
\* to a candidate, a send or a receive of the handshake is the step taken
\* where pc is one of these
TunnelOps == {"servers", "send", "recv"}

\* C17: on the tunnel path the socket is in blocking mode at every
\* connection attempt to a candidate and at every handshake send and
\* receive, whatever its mode at entry: O_NONBLOCK was cleared by the one
\* F_SETFL before the first attempt, and the F_SETFL that writes the saved
\* flags back is the step that returns, after the last of these operations.
C17_BlockingDuringTunnel ==
    /\ pc \in TunnelOps \cup {"status", "error"} =>
            /\ path = "tunnel"
            /\ BitAnd(sockFl, O_NONBLOCK) = 0
            /\ flags = entry.fl
            /\ setflCalls = 1
    /\ path = "tunnel" =>
            /\ \A i \in 1..Len(connectCalls) :
                    BitAnd(connectCalls[i].fl, O_NONBLOCK) = 0
            /\ setflCalls \in {1, 2}
            /\ setflCalls = 2 => Returned

\* a receive of the handshake in progress on a socket that was non-blocking
\* at entry, after a refused candidate, a complete send and part of the
\* response
C17_Witness ==
    /\ pc = "recv" /\ path = "tunnel"
    /\ BitAnd(entry.fl, O_NONBLOCK) # 0
    /\ Len(connectCalls) = 2
    /\ Len(sent) = SizeofRequest
    /\ rcvd # << >>

\* C18: the events of one tunnelled call are ordered. A handshake byte is
\* sent only over an accepted transport connection; a receive is tried only
\* after the 9 request bytes are sent; the status is examined only with the
\* 8 response bytes read; one request at most is sent in a call; and a call
\* that exhausted the candidates has tried no send and no receive.
C18_EventsOrdered ==
    /\ (sent # << >> \/ ioTried # {}) => sockPeer > 0
    /\ ("recv" \in ioTried \/ rcvd # << >> \/ pc \in {"recv", "status"}) =>
            sent = WireRequest(entry.addr)
    /\ (pc = "status" \/ outcome \in {"ok", "denied"}) =>
            Len(rcvd) = SizeofResponse
    /\ Len(sent) <= SizeofRequest /\ IsPrefix(sent, WireRequest(entry.addr))
    /\ Len(rcvd) <= SizeofResponse
    /\ outcome = "exhausted" =>
            (sent = << >> /\ rcvd = << >> /\ ioTried = {} /\ sockPeer = 0)

\* the status is about to be examined: the request went out in full after a
\* refused candidate and the eight response bytes are in
C18_Witness ==
    /\ pc = "status" /\ path = "tunnel"
    /\ Len(connectCalls) = 2
    /\ sent = WireRequest(entry.addr)
    /\ Len(rcvd) = SizeofResponse
    /\ ioTried = {"send", "recv"}

\* the other end of C18: the candidates are exhausted and nothing was sent
C18_ExhaustedWitness ==
    /\ Returned /\ outcome = "exhausted"
    /\ Len(connectCalls) = MaxServers
    /\ sent = << >> /\ ioTried = {}

\* C19: a tunnelled call that fails returns -1 with a non-zero errno, the
\* one captured when the error path was entered (errno as the failing
\* operation left it, or ECONNREFUSED if that was 0); the F_SETFL and the
\* shutdown that follow the capture, a shutdown failing with ENOTCONN
\* included, do not change it.
C19_FailureErrnoCaptured ==
    /\ []( (Returned /\ path = "tunnel" /\ ret # 0) =>
                (ret = -1 /\ errno # 0 /\ errno = saved_errno) )
    /\ [][ pc = "error" =>
                /\ pc' = "returned" /\ ret' = -1
                /\ errno' = (IF errno # 0 THEN errno ELSE ECONNREFUSED)
                /\ errno' # 0 ]_vars

\* every candidate refused, the last with ETIMEDOUT: the shutdown of the
\* never-connected socket fails with ENOTCONN and the caller sees ETIMEDOUT
C19_Witness ==
    /\ Returned /\ path = "tunnel" /\ ret = -1
    /\ outcome = "exhausted" /\ sockPeer = 0
    /\ shutdowns = 1
    /\ ShutdownErrno(sockPeer, sockReset, ETIMEDOUT) = ENOTCONN
    /\ errno = ETIMEDOUT

\* the proxy reset the accepted connection during the receive: the shutdown
\* of the socket fails with ENOTCONN and the caller sees ECONNRESET
C19_ResetWitness ==
    /\ Returned /\ path = "tunnel" /\ ret = -1
    /\ outcome = "recv" /\ sockPeer > 0 /\ sockReset
    /\ shutdowns = 1
    /\ ShutdownErrno(sockPeer, sockReset, ECONNRESET) = ENOTCONN
    /\ errno = ECONNRESET

\* the proxy denied the request and reset the connection after its complete
\* response: no send or receive failed, the shutdown fails with ENOTCONN
\* and the caller sees the ECONNREFUSED captured before it
C19_DeniedResetWitness ==
    /\ Returned /\ path = "tunnel" /\ ret = -1
    /\ outcome = "denied" /\ sockPeer > 0 /\ sockReset
    /\ ioTried = {"send", "recv"} /\ Len(rcvd) = SizeofResponse
    /\ entry.errno = 0 /\ shutdowns = 1
    /\ ShutdownErrno(sockPeer, sockReset, 0) = ENOTCONN
    /\ errno = ECONNREFUSED

\* the capture found errno 0: a denied request on a call entered with
\* errno 0 and no failed operation reports ECONNREFUSED
C19_ZeroWitness ==
    /\ Returned /\ path = "tunnel" /\ ret = -1
    /\ outcome = "denied" /\ entry.errno = 0
    /\ errno = ECONNREFUSED /\ Len(connectCalls) = 1

\* what a call run alone guarantees of its return value, its errno and its
\* socket, as established for the single thread
CallContract ==
    /\ C1_PassthroughIsDirectCall
    /\ C4_FlagsRestored
    /\ C5_SuccessIffGranted
    /\ C6_ShutdownIffFailure
    /\ C8_RequestBytesExact
    /\ C9_CandidatesInOrder
    /\ C11_ExhaustedReportsLastErrno
    /\ C17_BlockingDuringTunnel
    /\ C18_EventsOrdered

\* C15: real_connect and socks_server are written by _init only, before any
\* call of any thread has begun, and no step of connect() writes them. With
\* two threads calling connect() on distinct sockets, under every
\* interleaving: a step of one thread leaves the other thread's errno,
\* locals and socket as they were, a thread resumes in the state it was
\* suspended in, and every call keeps the contract of a call run alone.
C15_CallsIndependent ==
    /\ [][ pc # "load" => cfgVars' = cfgVars ]_vars
    /\ [](pc = "load" => (parked = ThreadIdle /\ entry = NoEntry))
    /\ [](pc \notin {"load", "aborted"} => real_connect = "libc")
    /\ [][ parked' = parked \/ (parked' = Me /\ Me' = parked) ]_vars
    /\ []CallContract

\* two calls under way at once: the running thread has received part of the
\* response after a refused candidate, the other one is suspended in the
\* middle of its send, on a socket with the other blocking mode
C15_Witness ==
    /\ pc = "recv" /\ rcvd # << >> /\ Len(connectCalls) = 2
    /\ parked.pc = "send" /\ parked.sent # << >>
    /\ Len(parked.connectCalls) = 1
    /\ parked.entry.fl # entry.fl
    /\ BitAnd(parked.sockFl, O_NONBLOCK) = 0 /\ BitAnd(sockFl, O_NONBLOCK) = 0


====
